---- MODULE Spec2Model ----
(***************************************************************************)
(* Model of cindersash/yahoo-groups-backup (package `parser`): the subject *)
(* normalizers, the validity filter and the two JSON directory processors. *)
(*                                                                         *)
(* Text is a sequence of one-character strings.  The regular expressions   *)
(* of the source are written out as matchers over such sequences.  The     *)
(* subjects of the model hold no line break ('.' and '$' then behave as    *)
(* "any character" and "end of text") and no MIME encoded word (so that    *)
(* email.header.decode_header returns the text as its single part).        *)
(***************************************************************************)
EXTENDS Integers, Sequences, FiniteSets, TLC

(***************************************************************************)
(* Characters and the str methods the normalizers use.                     *)
(***************************************************************************)

\* The white space of str.strip() / str.lstrip() and of the regex class \s.
WS == {" ", "\t"}

\* The decimal digits of the regex class \d.
DIGITS == {"0", "1", "2", "3", "4", "5", "6", "7", "8", "9"}

\* str.lower() on one character.
UpperToLower ==
    [c \in {"A", "B", "C", "D", "E", "F", "G", "H", "I", "J", "K", "L", "M",
            "N", "O", "P", "Q", "R", "S", "T", "U", "V", "W", "X", "Y", "Z"} |->
        CASE c = "A" -> "a" [] c = "B" -> "b" [] c = "C" -> "c" [] c = "D" -> "d"
          [] c = "E" -> "e" [] c = "F" -> "f" [] c = "G" -> "g" [] c = "H" -> "h"
          [] c = "I" -> "i" [] c = "J" -> "j" [] c = "K" -> "k" [] c = "L" -> "l"
          [] c = "M" -> "m" [] c = "N" -> "n" [] c = "O" -> "o" [] c = "P" -> "p"
          [] c = "Q" -> "q" [] c = "R" -> "r" [] c = "S" -> "s" [] c = "T" -> "t"
          [] c = "U" -> "u" [] c = "V" -> "v" [] c = "W" -> "w" [] c = "X" -> "x"
          [] c = "Y" -> "y" [] c = "Z" -> "z"]

LowerChar(c) == IF c \in DOMAIN UpperToLower THEN UpperToLower[c] ELSE c

\* str.lower()
Lower(s) == [i \in 1..Len(s) |-> LowerChar(s[i])]

\* s[n:]
Drop(s, n) == SubSeq(s, n + 1, Len(s))

\* The number of leading characters of s that lie in the class cls.
LeadIn(s, cls) ==
    IF \A i \in 1..Len(s) : s[i] \in cls
    THEN Len(s)
    ELSE (CHOOSE i \in 1..Len(s) :
              s[i] \notin cls /\ \A j \in 1..(i - 1) : s[j] \in cls) - 1

\* The number of trailing characters of s that lie in the class cls.
TrailIn(s, cls) ==
    IF \A i \in 1..Len(s) : s[i] \in cls
    THEN Len(s)
    ELSE Len(s) - (CHOOSE i \in 1..Len(s) :
                       s[i] \notin cls /\ \A j \in (i + 1)..Len(s) : s[j] \in cls)

\* str.lstrip(), str.rstrip(), str.strip()
LStrip(s) == Drop(s, LeadIn(s, WS))
RStrip(s) == SubSeq(s, 1, Len(s) - TrailIn(s, WS))
Strip(s) == RStrip(LStrip(s))

\* str.lstrip("_")
LStripUnderscore(s) == Drop(s, LeadIn(s, {"_"}))

\* str.startswith(p)
StartsWith(s, p) == Len(s) >= Len(p) /\ SubSeq(s, 1, Len(p)) = p

\* The least index of a set of positions.
MinOf(S) == CHOOSE i \in S : \A j \in S : i <= j

(***************************************************************************)
(* Module constants of the source.                                         *)
(***************************************************************************)

DEFAULT_SUBJECT == <<"(", "N", "o", " ", "s", "u", "b", "j", "e", "c", "t", ")">>

\* message_utils.PREFIXES_TO_STRIP: a list, tried in this order.  The last
\* two entries are compared with str.startswith, so they are the literal
\* texts  re[\d]*:  and  fwd[\d]*:  and no pattern.
PREFIXES_TO_STRIP_UTILS ==
    << <<"r", "e", ":">>,
       <<"f", "w", "d", ":">>,
       <<"f", "w", ":">>,
       <<"a", "w", ":">>,
       <<"v", "s", ":">>,
       <<"s", "v", ":">>,
       <<"r", "e", "[", "\\", "d", "]", "*", ":">>,
       <<"f", "w", "d", "[", "\\", "d", "]", "*", ":">> >>

\* constants.PREFIXES_TO_STRIP: a set; no member is a prefix of another, so
\* the order in which the set is iterated does not change which one matches.
PREFIXES_TO_STRIP ==
    << <<"r", "e", ":">>,
       <<"f", "w", "d", ":">>,
       <<"[", "L", "E", "T", "T", "E", "R", "B", "O", "X", "I", "N", "G",
         "T", "E", "X", "A", "S", "]">> >>

(***************************************************************************)
(* BRACKET_REGEX = ^\s*\[.*?]\s*                                           *)
(***************************************************************************)

\* The length of the match of BRACKET_REGEX at the start of s, -1 if none.
BracketMatchLen(s) ==
    LET a == LeadIn(s, WS)
        closing == {j \in (a + 2)..Len(s) : s[j] = "]"}
    IN  IF a < Len(s) /\ s[a + 1] = "[" /\ closing # {}
        THEN MinOf(closing) + LeadIn(Drop(s, MinOf(closing)), WS)
        ELSE -1

\* re.match(BRACKET_REGEX, s)
BracketMatches(s) == BracketMatchLen(s) >= 0

\* re.sub(BRACKET_REGEX, "", s): the pattern is anchored, so at most the one
\* match at the start is removed.
\* The text with its leading tag left in place.
BracketKept(s) == s

BracketSub(s) == IF BracketMatches(s) THEN Drop(s, BracketMatchLen(s)) ELSE s

(***************************************************************************)
(* \s*\[\s*\d+\s+Attachments?\s*]\s*$   (IGNORECASE)                       *)
(***************************************************************************)

ATTACHMENT == <<"a", "t", "t", "a", "c", "h", "m", "e", "n", "t">>

\* Whether the whole of t matches the attachment pattern.
IsAttachmentSuffix(t) ==
    LET t1 == LStrip(t)
    IN  /\ t1 # <<>>
        /\ t1[1] = "["
        /\ LET t2 == LStrip(Tail(t1))
               nd == LeadIn(t2, DIGITS)
               t3 == Drop(t2, nd)
               nw == LeadIn(t3, WS)
               t4 == Drop(t3, nw)
               t5 == Drop(t4, Len(ATTACHMENT))
               t6 == IF t5 # <<>> /\ LowerChar(t5[1]) = "s" THEN Tail(t5) ELSE t5
               t7 == LStrip(t6)
           IN  /\ nd >= 1
               /\ nw >= 1
               /\ StartsWith(Lower(t4), ATTACHMENT)
               /\ t7 # <<>>
               /\ t7[1] = "]"
               /\ LStrip(Tail(t7)) = <<>>

\* The subject as it is without the attachment step.
AttachmentKept(s) == s

\* re.sub(<attachment pattern>, "", s): the leftmost match runs to the end of
\* the text, so it is the only one.
AttachmentSub(s) ==
    LET starts == {i \in 1..Len(s) : IsAttachmentSuffix(SubSeq(s, i, Len(s)))}
    IN  IF starts = {} THEN s ELSE SubSeq(s, 1, MinOf(starts) - 1)

(***************************************************************************)
(* The "(was ...)" patterns of the three normalizers (all IGNORECASE,      *)
(* all used with re.search: the leftmost match counts).  Each operator     *)
(* gives the set of start positions at which the pattern matches and, for  *)
(* a start position, match.group(1).strip().                               *)
(***************************************************************************)

WAS == <<"w", "a", "s">>
RE_COLON == <<"r", "e", ":">>

\* message_utils.normalize_subject:   \(\s * was\s+([^)] * )\)
\* The blanks inside the pattern are literal (no re.VERBOSE): after "(" it
\* takes one \s, then one or more blanks, then "was", \s+, ONE character
\* other than ")", one or more blanks, and ")".
\* After "was": k is the longest run of white space.  Either one more
\* character c follows, then blanks, then ")" (group 1 is c and blanks), or
\* ")" follows the run and the run itself is split into \s+, one character
\* and blanks (group 1 is white space only).
WasUtilsCapture(s, i) ==
    LET g == LeadIn(Drop(s, i + 1), {" "})
        rest == Drop(s, i + 1 + g + Len(WAS))
        k == LeadIn(rest, WS)
        q == LeadIn(Drop(rest, k + 1), {" "})
    IN  IF /\ s[i] = "("
           /\ Len(s) >= i + 1
           /\ s[i + 1] \in WS
           /\ g >= 1
           /\ StartsWith(Lower(Drop(s, i + 1 + g)), WAS)
           /\ k >= 1
        THEN IF /\ Len(rest) >= k + 1
                /\ rest[k + 1] # ")"
                /\ q >= 1
                /\ Len(rest) >= k + 2 + q
                /\ rest[k + 2 + q] = ")"
             THEN [hit |-> TRUE, group |-> <<rest[k + 1]>>]
             ELSE IF /\ k >= 3
                     /\ rest[k] = " "
                     /\ Len(rest) >= k + 1
                     /\ rest[k + 1] = ")"
                  THEN [hit |-> TRUE, group |-> <<>>]
                  ELSE [hit |-> FALSE, group |-> <<>>]
        ELSE [hit |-> FALSE, group |-> <<>>]

\* BaseMessage._normalize_subject:   \(\s*was\s+([^)]*)\)
WasBaseCapture(s, i) ==
    LET a == LeadIn(Drop(s, i), WS)
        rest == Drop(s, i + a + Len(WAS))
        k == LeadIn(rest, WS)
        closing == {j \in 1..Len(rest) : rest[j] = ")"}
    IN  IF /\ s[i] = "("
           /\ StartsWith(Lower(Drop(s, i + a)), WAS)
           /\ k >= 1
           /\ closing # {}
        THEN [hit |-> TRUE, group |-> Strip(SubSeq(rest, 1, MinOf(closing) - 1))]
        ELSE [hit |-> FALSE, group |-> <<>>]

\* Message._normalize_subject:
\*     \(\s*was\s+(?:re:\s*)?\[.*?\]\s*(?:re:\s*)?(.*?)\)$
WasMessageCapture(s, i) ==
    LET a == LeadIn(Drop(s, i), WS)
        rest == Drop(s, i + a + Len(WAS))
        k == LeadIn(rest, WS)
        r0 == Drop(rest, k)
        r1 == IF StartsWith(Lower(r0), RE_COLON) THEN LStrip(Drop(r0, Len(RE_COLON))) ELSE r0
        closing == {j \in 2..Len(r1) : r1[j] = "]"}
        x == LStrip(Drop(r1, MinOf(closing)))
        x2 == IF StartsWith(Lower(x), RE_COLON) THEN LStrip(Drop(x, Len(RE_COLON))) ELSE x
    IN  IF /\ s[i] = "("
           /\ StartsWith(Lower(Drop(s, i + a)), WAS)
           /\ k >= 1
           /\ r1 # <<>>
           /\ r1[1] = "["
           /\ closing # {}
           /\ s[Len(s)] = ")"
        THEN [hit |-> TRUE, group |-> Strip(SubSeq(x2, 1, Len(x2) - 1))]
        ELSE [hit |-> FALSE, group |-> <<>>]

\* if match: subject = match.group(1).strip()
WasUtils(s) ==
    LET starts == {i \in 1..Len(s) : WasUtilsCapture(s, i).hit}
    IN  IF starts = {} THEN s ELSE WasUtilsCapture(s, MinOf(starts)).group

WasBase(s) ==
    LET starts == {i \in 1..Len(s) : WasBaseCapture(s, i).hit}
    IN  IF starts = {} THEN s ELSE WasBaseCapture(s, MinOf(starts)).group

WasMessage(s) ==
    LET starts == {i \in 1..Len(s) : WasMessageCapture(s, i).hit}
    IN  IF starts = {} THEN s ELSE WasMessageCapture(s, MinOf(starts)).group

(***************************************************************************)
(* The strip loop shared by the three normalizers.                         *)
(***************************************************************************)

\* One pass of the `while stripped` loop over the prefix list P: remove a
\* leading bracket tag, then the first prefix of P the text starts with
\* (and the white space after it); `stripped` asks for another pass.
StripPass(s, P) ==
    LET s1 == BracketSub(s)
        hits == {i \in 1..Len(P) : StartsWith(Lower(s1), Lower(P[i]))}
        s2 == IF hits = {} THEN s1 ELSE LStrip(Drop(s1, Len(P[MinOf(hits)])))
    IN  [subject |-> s2, stripped |-> (hits # {}) \/ BracketMatches(s2)]

RECURSIVE StripLoopFrom(_, _)
StripLoopFrom(s, P) ==
    LET r == StripPass(s, P)
    IN  IF r.stripped THEN StripLoopFrom(r.subject, P) ELSE r.subject

\* The body of the loop run once only, whatever it stripped.
StripLoopOnce(s, P) == StripPass(s, P).subject

\* stripped = True; while stripped: ...
StripLoop(s, P) == StripLoopFrom(s, P)

\* decode_mime_header on text without encoded words: decode_header gives
\* the text as one str part; the parts are stripped and joined, then
\* .lstrip("_").strip().
decode_mime_header(header) ==
    IF header = <<>> THEN <<>> ELSE Strip(LStripUnderscore(Strip(header)))

\* subject = subject.strip(); return subject if subject else DEFAULT_SUBJECT
StripOrDefault(s) == IF Strip(s) = <<>> THEN DEFAULT_SUBJECT ELSE Strip(s)

\* message_utils.normalize_subject (used by JSONMessage)
normalize_subject(subject) ==
    IF subject = <<>>
    THEN DEFAULT_SUBJECT
    ELSE StripOrDefault(StripLoop(AttachmentSub(WasUtils(subject)),
                                  PREFIXES_TO_STRIP_UTILS))

\* BaseMessage._normalize_subject (used by MboxMessage)
BaseMessage_normalize_subject(subject) ==
    IF subject = <<>>
    THEN <<>>
    ELSE StripOrDefault(StripLoop(AttachmentSub(WasBase(decode_mime_header(subject))),
                                  PREFIXES_TO_STRIP))

\* Message._normalize_subject (parser/message.py)
Message_normalize_subject(subject) ==
    IF subject = <<>>
    THEN <<>>
    ELSE StripOrDefault(StripLoop(AttachmentSub(WasMessage(decode_mime_header(subject))),
                                  PREFIXES_TO_STRIP))

(***************************************************************************)
(* Dates and the validity filter (parser/utils.py).                        *)
(*                                                                         *)
(* A date is None (NoDate) or an aware datetime: inst is the instant in    *)
(* seconds since the epoch, off the UTC offset of its tzinfo in seconds.   *)
(* Its local wall-clock reading is inst + off.  A text attribute is None   *)
(* (NoneText) or a sequence.                                               *)
(***************************************************************************)

NoDate == [none |-> TRUE, inst |-> 0, off |-> 0]
Date(i, o) == [none |-> FALSE, inst |-> i, off |-> o]

NoneText == <<"<None>">>

\* 1998-01-01T00:00:00 read as a UTC wall clock, in seconds since the epoch.
CUTOFF_1998 == 883612800

\* The cutoff taken at midnight UTC whatever the message's offset.
CutoffDateUtc(tz) == Date(CUTOFF_1998, 0)

\* datetime(1998, 1, 1, tzinfo=tz): midnight on the wall clock of offset tz.
CutoffDate(tz) == Date(CUTOFF_1998 - tz, tz)

\* a < b for aware datetimes: the instants are compared.
AwareLess(a, b) == a.inst < b.inst

\* bool(x) of a str-or-None attribute
Truthy(x) == x # NoneText /\ x # <<>>

\* The filter without the content test of its last line.
IsValidWhateverContent(message) ==
    IF ~message.date.none /\ AwareLess(message.date, CutoffDate(message.date.off))
    THEN FALSE
    ELSE ~message.date.none

\* utils._is_valid_message
_is_valid_message(message) ==
    IF ~message.date.none /\ AwareLess(message.date, CutoffDate(message.date.off))
    THEN FALSE
    ELSE Truthy(message.html_content) /\ ~message.date.none

(***************************************************************************)
(* JSON records and JSONMessage (parser/json_message.py).                  *)
(*                                                                         *)
(* A raw JSON scalar is a number, a non-numeric string or null.  A message *)
(* body is the sequence of the names of its top-level elements.  A field   *)
(* missing from the object is AbsentText; topicId 0 stands for a missing,  *)
(* null or zero topic id (all falsy).                                      *)
(***************************************************************************)

RawInt(n) == [k |-> "int", v |-> n]
RawText == [k |-> "str", v |-> 0]
RawNull == [k |-> "null", v |-> 0]

\* The field is missing from the object.
RawAbsent == [k |-> "absent", v |-> 0]

AbsentText == <<"<absent>">>

\* int(x): a number, ValueError for a non-numeric string, TypeError for None.
IntOf(raw) ==
    CASE raw.k = "int" -> [exc |-> "none", v |-> raw.v]
      [] raw.k = "str" -> [exc |-> "ValueError", v |-> 0]
      [] raw.k = "null" -> [exc |-> "TypeError", v |-> 0]

Digits10 == <<"0", "1", "2", "3", "4", "5", "6", "7", "8", "9">>

\* str(n) for n >= 0
RECURSIVE IntToText(_)
IntToText(n) ==
    IF n < 10
    THEN <<Digits10[n + 1]>>
    ELSE IntToText(n \div 10) \o <<Digits10[(n % 10) + 1]>>

\* JSONMessage._clean_html_content: script and style elements are removed.
_clean_html_content(content) ==
    IF content = <<>>
    THEN <<>>
    ELSE SelectSeq(content, LAMBDA e : e \notin {"script", "style"})

\* self._msg_data.get('postDate', 0)
GetPostDate(msg_data) ==
    IF msg_data.postDate = RawAbsent THEN RawInt(0) ELSE msg_data.postDate

\* JSONMessage._parse_date: datetime.fromtimestamp(timestamp, tz=tz.tzutc()),
\* the instant timestamp seconds after the epoch, in UTC.
_parse_date(msg_data) == Date(IntOf(GetPostDate(msg_data)).v, 0)

NoMessage ==
    [seq |-> 0, id |-> 0, subject |-> <<>>, normalized_subject |-> <<>>,
     sender_name |-> <<>>, date |-> NoDate, topic_id |-> 0, html_content |-> <<>>]

\* JSONMessage.__init__: the message, or the exception that leaves it.
\* html.unescape is the identity on the texts of the model (no "&"), and
\* raises TypeError on None; int(None) raises TypeError.  seq is the position
\* of the record in the input: it tells apart two message objects that are
\* equal field by field.
JSONMessage(msg_id, msg_data, seq) ==
    LET subject == decode_mime_header(IF msg_data.subject = AbsentText
                                      THEN DEFAULT_SUBJECT
                                      ELSE msg_data.subject)
    IN  IF msg_data.authorName = NoneText
        THEN [exc |-> "TypeError", msg |-> NoMessage]
        ELSE IF IntOf(GetPostDate(msg_data)).exc # "none"
        THEN [exc |-> IntOf(GetPostDate(msg_data)).exc, msg |-> NoMessage]
        ELSE [exc |-> "none",
              msg |-> [seq |-> seq,
                       id |-> msg_id,
                       subject |-> subject,
                       normalized_subject |-> normalize_subject(subject),
                       sender_name |-> msg_data.authorName,
                       date |-> _parse_date(msg_data),
                       topic_id |-> msg_data.topicId,
                       html_content |-> _clean_html_content(msg_data.messageBody)]]

(***************************************************************************)
(* MboxMessage (parser/mbox_message.py): the subject fields.               *)
(***************************************************************************)

\* MboxMessage._get_header: the default for a missing or empty header,
\* else the decoded header.
_get_header(value, default) ==
    IF value = AbsentText \/ value = <<>>
    THEN default
    ELSE decode_mime_header(value)

\* MboxMessage.__init__: _subject and _normalized_subject of a message
\* whose Subject header is value.
MboxMessage_subject(value) == _get_header(value, DEFAULT_SUBJECT)

MboxMessage_normalized_subject(value) ==
    BaseMessage_normalize_subject(MboxMessage_subject(value))

(***************************************************************************)
(* dict, which keeps its keys in insertion order: a sequence of entries.   *)
(***************************************************************************)

DictKeys(d) == {d[i].key : i \in 1..Len(d)}

DictIndex(d, k) == CHOOSE i \in 1..Len(d) : d[i].key = k

DictGet(d, k) == d[DictIndex(d, k)].val

\* d[k] = v
DictSet(d, k, v) ==
    IF k \in DictKeys(d)
    THEN [d EXCEPT ![DictIndex(d, k)].val = v]
    ELSE Append(d, [key |-> k, val |-> v])

\* threads[key] = m alone: the bucket is replaced, not extended.
BucketReplace(d, k, m) == DictSet(d, k, <<m>>)

\* if key not in threads: threads[key] = []
\* threads[key].append(m)
BucketAppend(d, k, m) ==
    IF k \in DictKeys(d)
    THEN [d EXCEPT ![DictIndex(d, k)].val = Append(@, m)]
    ELSE Append(d, [key |-> k, val |-> <<m>>])

(***************************************************************************)
(* Sorting a thread: key=lambda x: x.date if x.date else datetime.min.     *)
(***************************************************************************)

\* key(a) < key(b).  A message without date sorts as datetime.min, before
\* every dated one.
SortKeyLess(a, b) ==
    IF a.date.none THEN ~b.date.none
    ELSE ~b.date.none /\ AwareLess(a.date, b.date)

\* m put into the sorted s behind every element that is not later than m.
RECURSIVE InsertByDate(_, _)
InsertByDate(s, m) ==
    IF s = <<>> THEN <<m>>
    ELSE IF SortKeyLess(m, Head(s)) THEN <<m>> \o s
    ELSE <<Head(s)>> \o InsertByDate(Tail(s), m)

RECURSIVE SortFrom(_, _)
SortFrom(s, acc) ==
    IF s = <<>> THEN acc ELSE SortFrom(Tail(s), InsertByDate(acc, Head(s)))

\* The messages left in the order they were read.
KeepOrder(msgs) == msgs

\* A sort that also derives each message's normalized subject anew, with the
\* normalizer of parser/message.py.
SortRenormalizing(msgs) ==
    LET sorted == SortFrom(msgs, <<>>)
    IN  [i \in 1..Len(sorted) |->
            [sorted[i] EXCEPT
                !.normalized_subject = Message_normalize_subject(sorted[i].subject)]]

\* list.sort / sorted with the date key: the stable ascending order.
SortByDate(msgs) == SortFrom(msgs, <<>>)

(***************************************************************************)
(* State.                                                                  *)
(***************************************************************************)

VARIABLES
    parts,      \* the subject under normalization, as a sequence of fragments
    npc,        \* how often the normalizers were applied: "new", "once", "twice"
    n1,         \* the result of each normalizer on the subject
    n2,         \* the result of each normalizer on its own result
    vmsg,       \* the message handed to the validity filter
    vpc,        \* "new" before the filter ran, "done" after
    verdict,    \* what the filter returned
    proc,       \* the processor that runs: "json" or "email"
    log,        \* the records read so far, in the order they were read
    threads,    \* the dict `threads` of the processor
    ppc,        \* "reading", "returned", "raised" (left by an exception
                \* of a record) or "not_found" (FileNotFoundError)
    progress,   \* the ProgressTracker's processed_messages and
                \* valid_messages, and the processor's own counters
    mpath,      \* the mbox path: "ok", "missing" or "unreadable"
    source,     \* the records of the mbox file, each by what Message() does
    mpos,       \* how many records of the mbox were iterated
    messages,   \* the list `messages` of process_mbox
    msg_id,     \* the counter msg_id of process_mbox
    mpc,        \* "called", "iterating", "processed", "exit0" or "exit1"
    url,        \* the url of each message, by the position it was read at
    writes,     \* how often generate_site assigned each message's url
    reads,      \* the urls generate_site read: by which step, of which message
    gpc,        \* the step of generate_site: "threads", "index", "search", and
                \* "raised" once an exception has left it
    gi,         \* the number of the thread or index page generated next
    rendered,   \* the thread previews the index pages hold, in the order
                \* rendered: the page and the thread's key
    arg,        \* the argument of the function called on its own
    ret,        \* what that call returned
    fpc         \* "called", then "returned", or "raised" for an exception

vars ==
    <<parts, npc, n1, n2, vmsg, vpc, verdict, proc, log, threads, ppc, progress,
      mpath, source, mpos, messages, msg_id, mpc, url, writes, reads, gpc, gi,
      rendered, arg, ret, fpc>>

normVars == <<parts, npc, n1, n2>>
validVars == <<vmsg, vpc, verdict>>
procVars == <<proc, log, threads, ppc, progress>>
mboxVars == <<mpath, source, mpos, messages, msg_id, mpc>>
genVars == <<url, writes, reads, gpc, gi, rendered>>
funVars == <<arg, ret, fpc>>

NoResult == [utils |-> <<>>, base |-> <<>>, message |-> <<>>]

NormIdle == parts = <<>> /\ npc = "idle" /\ n1 = NoResult /\ n2 = NoResult

ValidIdle ==
    /\ vmsg = [date |-> NoDate, html_content |-> NoneText]
    /\ vpc = "idle"
    /\ verdict = FALSE

\* ProgressTracker.__init__, and total_messages = 0, valid_messages = 0
\* (valid_count = 0 in process_json_directory).
NoProgress ==
    [processed_messages |-> 0, valid_messages |-> 0, total |-> 0, valid |-> 0]

ProcIdle ==
    /\ proc = "idle"
    /\ log = <<>>
    /\ threads = <<>>
    /\ ppc = "idle"
    /\ progress = NoProgress

MboxIdle ==
    /\ mpath = "idle"
    /\ source = <<>>
    /\ mpos = 0
    /\ messages = <<>>
    /\ msg_id = 0
    /\ mpc = "idle"

GenIdle ==
    /\ url = <<>>
    /\ writes = <<>>
    /\ reads = <<>>
    /\ gpc = "idle"
    /\ gi = 0
    /\ rendered = <<>>

FunIdle == arg = <<>> /\ ret = <<>> /\ fpc = "idle"

(***************************************************************************)
(* SpecNorm: the normalizers applied to a subject, then to their results.  *)
(* Subjects are the texts made of at most MaxParts fragments.              *)
(***************************************************************************)

MaxParts == 4

F_SPACE == <<" ">>
F_RE == <<"R", "e", ":">>
F_FWD == <<"f", "w", "d", ":">>
F_TAG == <<"[", "T", "]">>
F_TEXT == <<"H", "i">>
F_ATTACH == <<"[", "1", " ", "A", "t", "t", "a", "c", "h", "m", "e", "n", "t", "]">>
F_WAS == <<"(", "w", "a", "s", " ">>
F_CLOSE == <<")">>
F_FW == <<"F", "W", ":">>
F_RE2 == <<"R", "e", "[", "2", "]", ":">>

Fragments ==
    {F_SPACE, F_RE, F_FWD, F_TAG, F_TEXT, F_ATTACH, F_WAS, F_CLOSE, F_FW, F_RE2}

RECURSIVE Flatten(_)
Flatten(ps) == IF ps = <<>> THEN <<>> ELSE Head(ps) \o Flatten(Tail(ps))

Subject == Flatten(parts)

\* The three normalizers of the source applied to one text each.
NormalizeAll(in) ==
    [utils |-> normalize_subject(in.utils),
     base |-> BaseMessage_normalize_subject(in.base),
     message |-> Message_normalize_subject(in.message)]

NormInit ==
    /\ parts \in UNION {[1..n -> Fragments] : n \in 0..MaxParts}
    /\ npc = "new"
    /\ n1 = NoResult
    /\ n2 = NoResult
    /\ ValidIdle
    /\ ProcIdle
    /\ MboxIdle
    /\ GenIdle
    /\ FunIdle

\* normalize(s)
Normalize ==
    /\ npc = "new"
    /\ n1' = NormalizeAll([utils |-> Subject, base |-> Subject, message |-> Subject])
    /\ npc' = "once"
    /\ UNCHANGED <<parts, n2, validVars, procVars, mboxVars, genVars, funVars>>

\* normalize(normalize(s))
Renormalize ==
    /\ npc = "once"
    /\ n2' = NormalizeAll(n1)
    /\ npc' = "twice"
    /\ UNCHANGED <<parts, n1, validVars, procVars, mboxVars, genVars, funVars>>

NormNext == Normalize \/ Renormalize

SpecNorm == NormInit /\ [][NormNext]_vars

(***************************************************************************)
(* SpecValid: the validity filter applied to a message.  Dates lie within  *)
(* MaxHours hours of the cutoff instant, offsets within MaxOffset hours of *)
(* UTC.                                                                    *)
(***************************************************************************)

MaxHours == 3
MaxOffset == 2

Instants == {CUTOFF_1998 + h * 3600 : h \in (-MaxHours)..MaxHours}
Offsets == {h * 3600 : h \in (-MaxOffset)..MaxOffset}

Dates == {NoDate} \cup {Date(i, o) : i \in Instants, o \in Offsets}
Contents == {NoneText, <<>>, <<"p">>}

ValidInit ==
    /\ vmsg \in [date : Dates, html_content : Contents]
    /\ vpc = "new"
    /\ verdict = FALSE
    /\ NormIdle
    /\ ProcIdle
    /\ MboxIdle
    /\ GenIdle
    /\ FunIdle

\* _is_valid_message(message)
Validate ==
    /\ vpc = "new"
    /\ verdict' = _is_valid_message(vmsg)
    /\ vpc' = "done"
    /\ UNCHANGED <<vmsg, normVars, procVars, mboxVars, genVars, funVars>>

ValidNext == Validate

SpecValid == ValidInit /\ [][ValidNext]_vars

(***************************************************************************)
(* Spec: process_json_directory and process_email_json_directory.  The     *)
(* files of the directory are read in the order of their numbers; a run    *)
(* reads at most MaxRecords message records.  For process_json_directory   *)
(* the records are the entries of the files' "messages" arrays in reading  *)
(* order; for process_email_json_directory each file is one record.        *)
(***************************************************************************)

MaxRecords == 3

T_HI == <<"H", "i">>
T_RE_HI == <<"R", "e", ":", " ", "H", "i">>
T_THREAD_2 == <<"T", "h", "r", "e", "a", "d", " ", "2">>

\* A well-formed record with a body.
Record(id, s, d, t) ==
    [msgId |-> RawInt(id), subject |-> s, authorName |-> <<"A">>,
     postDate |-> RawInt(d), topicId |-> t, messageBody |-> <<"p">>]

ValidDates == {CUTOFF_1998, CUTOFF_1998 + 3600}

\* Records that are rejected, skipped or that raise.
BadRecords ==
    LET r == Record(1, T_HI, CUTOFF_1998, 1)
    IN  {[r EXCEPT !.postDate = RawInt(CUTOFF_1998 - 3600)],
         [r EXCEPT !.postDate = RawInt(0)],
         [r EXCEPT !.postDate = RawAbsent],
         [r EXCEPT !.messageBody = <<>>],
         [r EXCEPT !.messageBody = <<"script">>],
         [r EXCEPT !.msgId = RawInt(0)],
         [r EXCEPT !.msgId = RawText],
         [r EXCEPT !.msgId = RawNull],
         [r EXCEPT !.authorName = NoneText]}

JsonRecords ==
    {Record(1, s, d, 0) : s \in {T_HI, T_RE_HI, <<>>, AbsentText}, d \in ValidDates}
        \cup BadRecords

\* The message files: topics 1 and 2, messages without topic, and the
\* records whose date, msgId or author stop them.
EmailRecords ==
    {Record(1, s, d, t) : s \in {T_HI, T_RE_HI}, d \in ValidDates, t \in {1, 2}}
        \cup {Record(1, s, CUTOFF_1998, t) : s \in {<<>>, T_THREAD_2}, t \in {1, 2}}
        \cup {Record(2, s, CUTOFF_1998, 0) : s \in {T_HI, <<>>}}
        \cup {b \in BadRecords : /\ b.messageBody = <<"p">>
                                  /\ b.msgId # RawNull
                                  /\ b.postDate \notin {RawInt(0), RawAbsent}}

\* What the body of the per-record try block does with the record read as
\* number seq: "skip" (msgId missing or 0), the exception raised, "reject"
\* (the validity filter) or "accept".
RecordOutcome(rec, seq) ==
    LET id == IntOf(rec.msgId)
        made == JSONMessage(id.v, rec, seq)
    IN  IF id.exc # "none" THEN id.exc
        ELSE IF id.v = 0 THEN "skip"
        ELSE IF made.exc # "none" THEN made.exc
        ELSE IF ~_is_valid_message(made.msg) THEN "reject"
        ELSE "accept"

\* The message JSONMessage makes of the record read as number seq.
MessageOf(rec, seq) == JSONMessage(IntOf(rec.msgId).v, rec, seq).msg

\* except (KeyError, ValueError): any other exception leaves the function.
Caught(exc) == exc \in {"KeyError", "ValueError"}

AfterRecord(outcome) ==
    IF outcome \in {"skip", "reject", "accept"} \/ Caught(outcome)
    THEN "reading"
    ELSE "raised"

\* process_json_directory: "Group by normalized subject (thread)"
JsonThreadKey(msg) == msg.normalized_subject

\* process_email_json_directory: topic_id = msg.topic_id or f'single_{msg.id}'
EmailThreadKey(msg) ==
    IF msg.topic_id # 0
    THEN IntToText(msg.topic_id)
    ELSE <<"s", "i", "n", "g", "l", "e", "_">> \o IntToText(msg.id)

Init ==
    /\ proc \in {"json", "email"}
    /\ log = <<>>
    /\ threads = <<>>
    /\ ppc = "reading"
    /\ progress = NoProgress
    /\ NormIdle
    /\ ValidIdle
    /\ MboxIdle
    /\ GenIdle
    /\ FunIdle

\* One pass of the message loop of process_json_directory.
JsonRecord(rec) ==
    /\ proc = "json"
    /\ ppc = "reading"
    /\ Len(log) < MaxRecords
    /\ log' = Append(log, rec)
    /\ LET seq == Len(log) + 1
           outcome == RecordOutcome(rec, seq)
       IN  /\ threads' = IF outcome = "accept"
                         THEN BucketAppend(threads, JsonThreadKey(MessageOf(rec, seq)),
                                           MessageOf(rec, seq))
                         ELSE threads
           /\ progress' = IF outcome = "accept"
                          THEN [progress EXCEPT !.valid = @ + 1]
                          ELSE progress
           /\ ppc' = AfterRecord(outcome)
    /\ UNCHANGED <<proc, normVars, validVars, mboxVars, genVars, funVars>>

\* The end of process_json_directory: the file's messages are all read,
\* progress.update_messages_processed(len(messages), valid_count) adds the
\* two counts, each thread is sorted in place and the dict is returned.
JsonFinish ==
    /\ proc = "json"
    /\ ppc = "reading"
    /\ progress' = [progress EXCEPT !.processed_messages = @ + Len(log),
                                    !.valid_messages = @ + progress.valid]
    /\ threads' = [i \in 1..Len(threads) |->
                      [key |-> threads[i].key, val |-> SortByDate(threads[i].val)]]
    /\ ppc' = "returned"
    /\ UNCHANGED <<proc, log, normVars, validVars, mboxVars, genVars, funVars>>

\* The counters after one file of process_email_json_directory:
\* total_messages += 1 once msgId is a number other than 0; for an accepted
\* message valid_messages += 1 and, after the inner try block,
\* progress.update_messages_processed(total_messages, valid_messages), which
\* adds both running totals to the tracker.  Every other outcome leaves the
\* loop pass by `continue` or by the exception.
EmailProgress(p, rec, outcome) ==
    LET counted == IntOf(rec.msgId).exc = "none" /\ IntOf(rec.msgId).v # 0
        total == IF counted THEN p.total + 1 ELSE p.total
        valid == IF outcome = "accept" THEN p.valid + 1 ELSE p.valid
    IN  IF outcome = "accept"
        THEN [processed_messages |-> p.processed_messages + total,
              valid_messages |-> p.valid_messages + valid,
              total |-> total, valid |-> valid]
        ELSE [p EXCEPT !.total = total]

\* One pass of the file loop of process_email_json_directory.
EmailRecord(rec) ==
    /\ proc = "email"
    /\ ppc = "reading"
    /\ Len(log) < MaxRecords
    /\ log' = Append(log, rec)
    /\ LET seq == Len(log) + 1
           outcome == RecordOutcome(rec, seq)
       IN  /\ threads' = IF outcome = "accept"
                         THEN BucketAppend(threads, EmailThreadKey(MessageOf(rec, seq)),
                                           MessageOf(rec, seq))
                         ELSE threads
           /\ progress' = EmailProgress(progress, rec, outcome)
           /\ ppc' = AfterRecord(outcome)
    /\ UNCHANGED <<proc, normVars, validVars, mboxVars, genVars, funVars>>

THREAD_ == <<"T", "h", "r", "e", "a", "d", " ">>

\* f"{base_name} ({counter})"
Suffixed(base_name, counter) ==
    base_name \o <<" ", "(">> \o IntToText(counter) \o <<")">>

\* while thread_name in updated_threads:
\*     thread_name = f"{base_name} ({counter})"; counter += 1
RECURSIVE UniqueName(_, _, _, _)
UniqueName(thread_name, base_name, counter, updated_threads) ==
    IF thread_name \in DictKeys(updated_threads)
    THEN UniqueName(Suffixed(base_name, counter), base_name, counter + 1,
                    updated_threads)
    ELSE thread_name

\* The name a topic would get without the uniqueness loop.
ThreadNameUnchecked(topic_id, messages_sorted, updated_threads) ==
    IF messages_sorted # <<>> /\ Truthy(messages_sorted[1].subject)
    THEN messages_sorted[1].subject
    ELSE THREAD_ \o topic_id

\* The name a topic gets, given the names already given out.
ThreadName(topic_id, messages_sorted, updated_threads) ==
    IF messages_sorted # <<>> /\ Truthy(messages_sorted[1].subject)
    THEN UniqueName(messages_sorted[1].subject, messages_sorted[1].subject, 1,
                    updated_threads)
    ELSE THREAD_ \o topic_id

\* for topic_id, messages in threads.items(): ... over the entries left.
RECURSIVE RenameFrom(_, _)
RenameFrom(entries, updated_threads) ==
    IF entries = <<>>
    THEN updated_threads
    ELSE LET messages_sorted == SortByDate(Head(entries).val)
         IN  RenameFrom(Tail(entries),
                        DictSet(updated_threads,
                                ThreadName(Head(entries).key, messages_sorted,
                                           updated_threads),
                                messages_sorted))

\* The end of process_email_json_directory: the topics are sorted and
\* renamed into updated_threads, which is returned.
EmailFinish ==
    /\ proc = "email"
    /\ ppc = "reading"
    /\ threads' = RenameFrom(threads, <<>>)
    /\ ppc' = "returned"
    /\ UNCHANGED <<proc, log, progress, normVars, validVars, mboxVars, genVars, funVars>>

\* if not os.path.isdir(json_dir): raise FileNotFoundError, in either
\* processor, before any file is listed.
DirectoryNotFound ==
    /\ ppc = "reading"
    /\ log = <<>>
    /\ ppc' = "not_found"
    /\ UNCHANGED <<proc, log, threads, progress,
                   normVars, validVars, mboxVars, genVars, funVars>>

Next ==
    \/ DirectoryNotFound
    \/ \E rec \in JsonRecords : JsonRecord(rec)
    \/ JsonFinish
    \/ \E rec \in EmailRecords : EmailRecord(rec)
    \/ EmailFinish

Spec == Init /\ [][Next]_vars

(***************************************************************************)
(* SpecMbox: main and process_mbox of parser/__main__.py.  The mbox file   *)
(* holds at most MaxMbox records; of each it matters whether Message()     *)
(* returns a message that passes the validity filter ("valid"), returns    *)
(* one that does not ("old": dated before 1998) or raises ("fails").       *)
(***************************************************************************)

MaxMbox == 4

RecordKinds == {"valid", "old", "fails"}

MboxInit ==
    /\ mpath \in {"ok", "missing", "unreadable"}
    /\ source \in UNION {[1..n -> RecordKinds] : n \in 0..MaxMbox}
    /\ mpos = 0
    /\ messages = <<>>
    /\ msg_id = 1
    /\ mpc = "called"
    /\ NormIdle
    /\ ValidIdle
    /\ ProcIdle
    /\ GenIdle
    /\ FunIdle

\* if not os.path.exists(mbox_path): sys.exit(1)
MboxNotFound ==
    /\ mpc = "called"
    /\ mpath = "missing"
    /\ mpc' = "exit1"
    /\ UNCHANGED <<mpath, source, mpos, messages, msg_id,
                   normVars, validVars, procVars, genVars, funVars>>

\* mbox = mailbox.mbox(mbox_path), inside try: an exception while the file
\* is opened or read ends in sys.exit(1).
MboxOpen ==
    /\ mpc = "called"
    /\ mpath # "missing"
    /\ mpc' = IF mpath = "unreadable" THEN "exit1" ELSE "iterating"
    /\ UNCHANGED <<mpath, source, mpos, messages, msg_id,
                   normVars, validVars, procVars, genVars, funVars>>

\* One pass of `for msg in mbox`: messages.append(Message(msg_id, msg));
\* msg_id += 1, both skipped when Message() raises.
MboxMessage ==
    /\ mpc = "iterating"
    /\ mpos < Len(source)
    /\ mpos' = mpos + 1
    /\ IF source[mpos + 1] = "fails"
       THEN UNCHANGED <<messages, msg_id>>
       ELSE /\ messages' = Append(messages, [id |-> msg_id,
                                             record |-> mpos + 1,
                                             kind |-> source[mpos + 1]])
            /\ msg_id' = msg_id + 1
    /\ UNCHANGED <<mpath, source, mpc, normVars, validVars, procVars, genVars, funVars>>

\* return messages
MboxReturn ==
    /\ mpc = "iterating"
    /\ mpos = Len(source)
    /\ mpc' = "processed"
    /\ UNCHANGED <<mpath, source, mpos, messages, msg_id,
                   normVars, validVars, procVars, genVars, funVars>>

\* main: if not messages: sys.exit(1); else the site is generated and main
\* returns.
MainExit ==
    /\ mpc = "processed"
    /\ mpc' = IF messages = <<>> THEN "exit1" ELSE "exit0"
    /\ UNCHANGED <<mpath, source, mpos, messages, msg_id,
                   normVars, validVars, procVars, genVars, funVars>>

MboxNext == MboxNotFound \/ MboxOpen \/ MboxMessage \/ MboxReturn \/ MainExit

SpecMbox == MboxInit /\ [][MboxNext]_vars

(***************************************************************************)
(* SpecGen: SiteGenerator.generate_site (parser/generator.py) on the map   *)
(* process_json_directory returns for at most MaxGenRecords valid records. *)
(* The record read as number i has msgId i.                                *)
(***************************************************************************)

MaxGenRecords == 3

threads_per_page == 25

ALNUM ==
    DIGITS \cup DOMAIN UpperToLower \cup {UpperToLower[c] : c \in DOMAIN UpperToLower}

\* c if c.isalnum() or c in ' -_' else '_'
SafeChar(c) == IF c \in ALNUM \cup {" ", "-", "_"} THEN c ELSE "_"

\* safe_subject, cut to 50 characters
SafeSubject(thread_subject) ==
    LET safe == [i \in 1..Len(thread_subject) |-> SafeChar(thread_subject[i])]
    IN  IF Len(safe) > 50 THEN SubSeq(safe, 1, 50) ELSE safe

MESSAGES_ == <<"m", "e", "s", "s", "a", "g", "e", "s", "/">>
DOT_HTML == <<".", "h", "t", "m", "l">>
NO_SUBJECT == <<"N", "o", " ", "s", "u", "b", "j", "e", "c", "t">>

\* self._url = f"messages/{self._id}.html"
DefaultUrl(id) == MESSAGES_ \o IntToText(id) \o DOT_HTML

\* filename = f"thread_{thread_id}_{safe_subject}.html", the subject being
\* thread[0].normalized_subject or 'No subject'
ThreadFilename(thread_id, thread) ==
    LET thread_subject == IF Truthy(thread[1].normalized_subject)
                          THEN thread[1].normalized_subject
                          ELSE NO_SUBJECT
    IN  <<"t", "h", "r", "e", "a", "d", "_">> \o IntToText(thread_id) \o <<"_">>
            \o SafeSubject(thread_subject) \o DOT_HTML

\* msg.url = f'messages/{filename}'
ThreadUrl(filename) == MESSAGES_ \o filename

\* The urls after the loop over the thread that sets each message's url
\* but the first message's only.
WriteFirstUrl(u, thread, value) ==
    [s \in DOMAIN u |-> IF thread[1].seq = s THEN value ELSE u[s]]

\* for msg in thread: msg.url = value
WriteUrls(u, thread, value) ==
    [s \in DOMAIN u |->
        IF \E k \in 1..Len(thread) : thread[k].seq = s THEN value ELSE u[s]]

\* total_pages = (total_threads + threads_per_page - 1) // threads_per_page
TotalPages(total_threads) ==
    (total_threads + threads_per_page - 1) \div threads_per_page

\* The step that follows when thread number i is the next to generate.
StepAfterThreads(i, total_threads) ==
    IF i <= total_threads THEN "threads"
    ELSE IF TotalPages(total_threads) >= 1 THEN "index"
    ELSE "search"

\* sorted(threads.items(), key=<date of the last message>, reverse=True):
\* stable, the most recent thread first.
LastInst(entry) == entry.val[Len(entry.val)].date.inst

RECURSIVE InsertRecent(_, _)
InsertRecent(acc, entry) ==
    IF acc = <<>> THEN <<entry>>
    ELSE IF LastInst(Head(acc)) >= LastInst(entry)
    THEN <<Head(acc)>> \o InsertRecent(Tail(acc), entry)
    ELSE <<entry>> \o acc

RECURSIVE SortRecentFrom(_, _)
SortRecentFrom(entries, acc) ==
    IF entries = <<>>
    THEN acc
    ELSE SortRecentFrom(Tail(entries), InsertRecent(acc, Head(entries)))

Min2(a, b) == IF a < b THEN a ELSE b

\* last_message.date.strftime('%B %Y'): the month of the date's own wall
\* clock, as the number of the month starts of 1998 it has reached (0 before
\* 1998; the dates of the model lie in 1998).
DaysBeforeMonth == <<0, 31, 59, 90, 120, 151, 181, 212, 243, 273, 304, 334>>

MonthYear(date) ==
    Cardinality({m \in 1..12 :
                    CUTOFF_1998 + DaysBeforeMonth[m] * 86400 <= date.inst + date.off})

\* _generate_index_page: the threads of the page.
PageThreads(d, page) ==
    LET sorted_threads == SortRecentFrom(d, <<>>)
        start_idx == (page - 1) * threads_per_page
        end_idx == Min2(start_idx + threads_per_page, Len(sorted_threads))
    IN  SubSeq(sorted_threads, start_idx + 1, end_idx)

\* threads_by_month: a dict from month_year to the page's threads of that
\* month, filled in page order; threads that are empty or whose last message
\* has no date are left out.
RECURSIVE ThreadsByMonth(_, _)
ThreadsByMonth(page_threads, n) ==
    IF n = 0
    THEN <<>>
    ELSE LET by_month == ThreadsByMonth(page_threads, n - 1)
             e == page_threads[n]
         IN  IF e.val = <<>> \/ e.val[Len(e.val)].date.none
             THEN by_month
             ELSE BucketAppend(by_month, MonthYear(e.val[Len(e.val)].date), e)

\* months_html: the months in the order of the dict, the threads of a month
\* in the order they were appended.
RECURSIVE MonthsFlat(_)
MonthsFlat(by_month) ==
    IF by_month = <<>> THEN <<>> ELSE Head(by_month).val \o MonthsFlat(Tail(by_month))

PagePreviews(d, page) ==
    LET page_threads == PageThreads(d, page)
    IN  MonthsFlat(ThreadsByMonth(page_threads, Len(page_threads)))

\* The previews page `page` holds, in the order rendered.
IndexRendered(d, page) ==
    LET previews == PagePreviews(d, page)
    IN  [i \in 1..Len(previews) |-> [page |-> page, key |-> previews[i].key]]

\* The reads of first_msg.url the page makes.
IndexReads(d, u, page) ==
    LET previews == PagePreviews(d, page)
    IN  [i \in 1..Len(previews) |->
            [by |-> "index", msg |-> previews[i].val[1].seq,
             url |-> u[previews[i].val[1].seq]]]

\* _generate_search_index: first_msg.url of each thread, then msg.url of
\* each of its messages that has content.
RECURSIVE SearchReads(_, _)
SearchReads(d, u) ==
    IF d = <<>>
    THEN <<>>
    ELSE LET msgs == Head(d).val
             with_content == SelectSeq(msgs, LAMBDA m : Truthy(m.html_content))
         IN  (IF msgs = <<>>
              THEN <<>>
              ELSE <<[by |-> "search", msg |-> msgs[1].seq, url |-> u[msgs[1].seq]]>>
                       \o [i \in 1..Len(with_content) |->
                              [by |-> "search", msg |-> with_content[i].seq,
                               url |-> u[with_content[i].seq]]])
                 \o SearchReads(Tail(d), u)

\* The map process_json_directory returns for the records l.
RECURSIVE JsonBuckets(_, _)
JsonBuckets(l, n) ==
    IF n = 0
    THEN <<>>
    ELSE LET d == JsonBuckets(l, n - 1)
         IN  IF RecordOutcome(l[n], n) = "accept"
             THEN BucketAppend(d, JsonThreadKey(MessageOf(l[n], n)), MessageOf(l[n], n))
             ELSE d

JsonThreads(l) ==
    LET d == JsonBuckets(l, Len(l))
    IN  [i \in 1..Len(d) |-> [key |-> d[i].key, val |-> SortByDate(d[i].val)]]

GenSubjects == {T_HI, T_RE_HI, <<>>, T_THREAD_2}

GenInit ==
    /\ proc = "json"
    /\ \E n \in 0..MaxGenRecords :
           \E s \in [1..n -> GenSubjects], d \in [1..n -> ValidDates] :
               log = [i \in 1..n |-> Record(i, s[i], d[i], 0)]
    /\ threads = JsonThreads(log)
    /\ ppc = "returned"
    /\ progress = [NoProgress EXCEPT !.processed_messages = Len(log),
                                     !.valid_messages = Len(log),
                                     !.valid = Len(log)]
    /\ url = [i \in 1..Len(log) |-> DefaultUrl(i)]
    /\ writes = [i \in 1..Len(log) |-> 0]
    /\ reads = <<>>
    /\ gpc = StepAfterThreads(1, Len(threads))
    /\ gi = 1
    /\ rendered = <<>>
    /\ NormIdle
    /\ ValidIdle
    /\ MboxIdle
    /\ FunIdle

\* self._generate_thread_page(messages, i): the thread is sorted, the page
\* written and the url of each of its messages set.
GenerateThreadPage ==
    /\ gpc = "threads"
    /\ LET thread == SortByDate(threads[gi].val)
       IN  IF thread = <<>>
           THEN UNCHANGED <<threads, url, writes>>
           ELSE /\ threads' = [threads EXCEPT ![gi].val = thread]
                /\ url' = WriteUrls(url, thread, ThreadUrl(ThreadFilename(gi, thread)))
                /\ writes' = [s \in DOMAIN writes |->
                                 IF \E k \in 1..Len(thread) : thread[k].seq = s
                                 THEN writes[s] + 1
                                 ELSE writes[s]]
    /\ gpc' = StepAfterThreads(gi + 1, Len(threads))
    /\ gi' = IF gi + 1 <= Len(threads) THEN gi + 1 ELSE 1
    /\ UNCHANGED <<reads, rendered, proc, log, ppc, progress,
                   normVars, validVars, mboxVars, funVars>>

\* self._generate_index_page(threads, page, threads_per_page)
GenerateIndexPage ==
    /\ gpc = "index"
    /\ reads' = reads \o IndexReads(threads, url, gi)
    /\ rendered' = rendered \o IndexRendered(threads, gi)
    /\ gpc' = IF gi < TotalPages(Len(threads)) THEN "index" ELSE "search"
    /\ gi' = gi + 1
    /\ UNCHANGED <<url, writes, procVars, normVars, validVars, mboxVars, funVars>>

\* self._generate_search_index(threads): the urls are read and the index
\* file is written; the last statement then reads
\* constants.SEARCH_HTML_TEMPLATE, which parser/constants.py does not
\* define, and AttributeError leaves generate_site.
GenerateSearchIndex ==
    /\ gpc = "search"
    /\ reads' = reads \o SearchReads(threads, url)
    /\ gpc' = "raised"
    /\ UNCHANGED <<url, writes, gi, rendered, procVars, normVars, validVars, mboxVars, funVars>>

GenNext == GenerateThreadPage \/ GenerateIndexPage \/ GenerateSearchIndex

SpecGen == GenInit /\ [][GenNext]_vars

(***************************************************************************)
(* SpecIndex: generate_site on a map of parser.message.Message objects,    *)
(* whose dates keep the UTC offset of their Date header.  Thread number i  *)
(* holds one message, read as number i; the dates lie within              *)
(* MaxIndexHours hours before 1998-02-01T00:00:00Z and carry offsets of 0  *)
(* to MaxIndexOffset hours, so that all messages are valid.                *)
(***************************************************************************)

MaxIndexThreads == 3
MaxIndexHours == 2
MaxIndexOffset == 3

IndexInstants == {CUTOFF_1998 + 31 * 86400 - h * 3600 : h \in 0..MaxIndexHours}
IndexOffsets == {0, MaxIndexOffset * 3600}
IndexDates == {Date(i, o) : i \in IndexInstants, o \in IndexOffsets}

\* Message.__init__ for a message with the given Subject header, a Date
\* header that parsedate_to_datetime reads as the aware datetime date, and a
\* text/html body of one paragraph.
Message(id, subject, date, seq) ==
    [seq |-> seq,
     id |-> id,
     subject |-> subject,
     normalized_subject |-> Message_normalize_subject(subject),
     sender_name |-> <<"A">>,
     date |-> date,
     topic_id |-> 0,
     html_content |-> <<"p">>]

IndexSubject(i) == <<"T">> \o IntToText(i)

IndexInit ==
    /\ \E n \in 0..MaxIndexThreads :
           \E d \in [1..n -> IndexDates] :
               threads = [i \in 1..n |->
                             [key |-> Message(i, IndexSubject(i), d[i], i).normalized_subject,
                              val |-> <<Message(i, IndexSubject(i), d[i], i)>>]]
    /\ proc = "idle"
    /\ log = <<>>
    /\ ppc = "idle"
    /\ progress = NoProgress
    /\ url = [i \in 1..Len(threads) |-> DefaultUrl(i)]
    /\ writes = [i \in 1..Len(threads) |-> 0]
    /\ reads = <<>>
    /\ gpc = StepAfterThreads(1, Len(threads))
    /\ gi = 1
    /\ rendered = <<>>
    /\ NormIdle
    /\ ValidIdle
    /\ MboxIdle
    /\ FunIdle

SpecIndex == IndexInit /\ [][GenNext]_vars

(***************************************************************************)
(* SpecContent: MboxMessage._extract_content (parser/mbox_message.py) on   *)
(* a message of at most MaxMimeParts parts.  A part is its content type    *)
(* and its decoded payload; a payload, like the content returned, is the   *)
(* sequence of the names of the elements a browser finds in it ("p" for    *)
(* harmless markup or words).  The payloads hold no line break.  A message *)
(* that is not multipart is its own single part.                           *)
(***************************************************************************)

MaxMimeParts == 2

\* The loop over msg.walk() for one of html_part and text_part: the payload
\* of a part of the content type is taken while the variable is still falsy
\* (None or empty, both <<>> here).
RECURSIVE FirstPart(_, _, _)
FirstPart(msg_parts, content_type, found) ==
    IF msg_parts = <<>>
    THEN found
    ELSE FirstPart(Tail(msg_parts), content_type,
                   IF Head(msg_parts).content_type = content_type /\ found = <<>>
                   THEN Head(msg_parts).payload
                   ELSE found)

\* MboxMessage._extract_content.  str(soup) of the lxml parser wraps the
\* markup in html and body; the plain text is put into the div as it is.
_extract_content(msg) ==
    LET html_part == FirstPart(msg.parts, "text/html", <<>>)
        text_part == FirstPart(msg.parts, "text/plain", <<>>)
    IN  IF html_part # <<>>
        THEN <<"html", "body">>
                 \o SelectSeq(html_part,
                              LAMBDA e : e \notin {"script", "iframe", "object", "embed"})
        ELSE IF text_part # <<>>
        THEN <<"div">> \o text_part
        ELSE NoneText

ContentInit ==
    /\ LET payloads == {<<>>, <<"p">>, <<"script">>, <<"p", "script">>,
                        <<"iframe", "p">>, <<"object", "embed">>}
           mime_parts == [content_type : {"text/html", "text/plain", "image/png"},
                          payload : payloads]
       IN  \E multipart \in BOOLEAN :
               \E n \in 1..(IF multipart THEN MaxMimeParts ELSE 1) :
                   \E ps \in [1..n -> mime_parts] :
                       arg = [multipart |-> multipart, parts |-> ps]
    /\ ret = <<>>
    /\ fpc = "called"
    /\ NormIdle
    /\ ValidIdle
    /\ ProcIdle
    /\ MboxIdle
    /\ GenIdle

\* self._html_content = self._extract_content(msg)
ExtractContent ==
    /\ fpc = "called"
    /\ ret' = _extract_content(arg)
    /\ fpc' = "returned"
    /\ UNCHANGED <<arg, normVars, validVars, procVars, mboxVars, genVars>>

SpecContent == ContentInit /\ [][ExtractContent]_vars

(***************************************************************************)
(* SpecHeader: message_utils.decode_mime_header on any value.  A header    *)
(* value is None, a number, text without encoded word (at most             *)
(* MaxHeaderLen characters) or one encoded word, given by its charset and  *)
(* the bytes its payload stands for (at most MaxHeaderLen; "<FF>" is a     *)
(* byte that is not valid UTF-8).                                          *)
(***************************************************************************)

MaxHeaderLen == 3
MaxHeaderInt == 3

\* bytes.decode("utf-8", errors="replace"): U+FFFD for the invalid byte.
\* A charset that is not known raises LookupError, and the bytes are decoded
\* the same way.
DecodeReplace(bytes) ==
    [i \in 1..Len(bytes) |-> IF bytes[i] = "<FF>" THEN "<U+FFFD>" ELSE bytes[i]]

\* decode_mime_header.  `not header` holds for None, "" and 0.  For a number
\* decode_header raises TypeError and the except branch returns
\* str(header).lstrip("_").strip().  Text gives one str part, an encoded
\* word one bytes part; the parts are stripped and joined.
DecodeMimeHeader(header) ==
    CASE header.k = "none" -> <<>>
      [] header.k = "int" -> IF header.v = 0 THEN <<>> ELSE IntToText(header.v)
      [] header.k = "str" -> decode_mime_header(header.text)
      [] header.k = "encoded" -> decode_mime_header(DecodeReplace(header.bytes))

RECURSIVE SeqsUpTo(_, _)
SeqsUpTo(S, n) ==
    IF n = 0
    THEN {<<>>}
    ELSE SeqsUpTo(S, n - 1) \cup [1..n -> S]

HeaderInit ==
    /\ arg \in {[k |-> "none"]}
                \cup {[k |-> "int", v |-> n] : n \in 0..MaxHeaderInt}
                \cup {[k |-> "str", text |-> t] :
                         t \in SeqsUpTo({" ", "_", "a"}, MaxHeaderLen)}
                \cup {[k |-> "encoded", charset |-> c, bytes |-> b] :
                         c \in {"utf-8", "x-unknown"},
                         b \in SeqsUpTo({" ", "_", "a", "<FF>"}, MaxHeaderLen) \ {<<>>}}
    /\ ret = <<>>
    /\ fpc = "called"
    /\ NormIdle
    /\ ValidIdle
    /\ ProcIdle
    /\ MboxIdle
    /\ GenIdle

\* decode_mime_header(header) returns: no statement of it lets an exception
\* of these values out.
DecodeHeader ==
    /\ fpc = "called"
    /\ ret' = DecodeMimeHeader(arg)
    /\ fpc' = "returned"
    /\ UNCHANGED <<arg, normVars, validVars, procVars, mboxVars, genVars>>

SpecHeader == HeaderInit /\ [][DecodeHeader]_vars

(***************************************************************************)
(* SpecLoop: the `while stripped` loop of normalize_subject and of         *)
(* BaseMessage._normalize_subject, one pass per step, on the subjects of   *)
(* at most MaxLoopParts fragments.  Both functions return before the loop  *)
(* when the subject is empty.  ret holds the loop's variables, the number  *)
(* of passes made, and the subject as it was when the last pass (start)    *)
(* and the pass before it (before) began.                                  *)
(***************************************************************************)

MaxLoopParts == 3

LoopInit ==
    /\ \E ps \in UNION {[1..n -> Fragments] : n \in 1..MaxLoopParts} :
           \E variant \in {"utils", "base"} :
               LET entering == IF variant = "utils"
                               THEN AttachmentSub(WasUtils(Flatten(ps)))
                               ELSE AttachmentSub(WasBase(decode_mime_header(Flatten(ps))))
               IN  /\ arg = [subject |-> Flatten(ps), variant |-> variant]
                   /\ ret = [subject |-> entering, stripped |-> TRUE, passes |-> 0,
                             start |-> entering, before |-> entering]
    /\ fpc = "called"
    /\ NormIdle
    /\ ValidIdle
    /\ ProcIdle
    /\ MboxIdle
    /\ GenIdle

\* One pass of the loop body.  The count of passes is followed up to one
\* pass beyond the length of the subject.
LoopPass ==
    /\ fpc = "called"
    /\ ret.stripped
    /\ ret.passes <= Len(arg.subject)
    /\ LET r == StripPass(ret.subject,
                          IF arg.variant = "utils"
                          THEN PREFIXES_TO_STRIP_UTILS
                          ELSE PREFIXES_TO_STRIP)
       IN  ret' = [subject |-> r.subject, stripped |-> r.stripped,
                   passes |-> ret.passes + 1,
                   start |-> ret.subject, before |-> ret.start]
    /\ UNCHANGED <<arg, fpc, normVars, validVars, procVars, mboxVars, genVars>>

\* `while stripped` finds stripped false.
LoopExit ==
    /\ fpc = "called"
    /\ ~ret.stripped
    /\ fpc' = "returned"
    /\ UNCHANGED <<arg, ret, normVars, validVars, procVars, mboxVars, genVars>>

LoopNext == LoopPass \/ LoopExit

SpecLoop == LoopInit /\ [][LoopNext]_vars

(***************************************************************************)
(* SpecPagination: SiteGenerator._generate_pagination_html for up to       *)
(* MaxPages index pages.  The controls are the sequence of the elements    *)
(* appended to `pagination` between the opening and the closing div: a     *)
(* link (a) with its href, or a span; `by` names the statement that made   *)
(* the element and `page` the page number it shows or leads to.            *)
(***************************************************************************)

MaxPages == 12

\* f'index{k}.html'
IndexN(k) == <<"i", "n", "d", "e", "x">> \o IntToText(k) \o DOT_HTML

\* _generate_index_page: the name of the file page `page` is written to.
OutputFile(page) ==
    IF page = 1 THEN <<"i", "n", "d", "e", "x">> \o DOT_HTML ELSE IndexN(page)

\* The first page of the window when it is not moved back near the end.
WindowStartUnadjusted(current_page, total_pages) ==
    IF current_page - 2 > 1 THEN current_page - 2 ELSE 1

\* start_page, with max_pages_to_show = 5 and half_window = 2.
WindowStart(current_page, total_pages) ==
    LET start_page == IF current_page - 2 > 1 THEN current_page - 2 ELSE 1
        end_page == Min2(total_pages, start_page + 5 - 1)
    IN  IF end_page - start_page + 1 < 5
        THEN (IF end_page - 5 + 1 > 1 THEN end_page - 5 + 1 ELSE 1)
        ELSE start_page

_generate_pagination_html(current_page, total_pages) ==
    LET index_html == <<"i", "n", "d", "e", "x">> \o DOT_HTML
        a(by, href, page) == [tag |-> "a", by |-> by, href |-> href, page |-> page]
        span(by, page) == [tag |-> "span", by |-> by, href |-> <<>>, page |-> page]
        start_page == WindowStart(current_page, total_pages)
        end_page == Min2(total_pages, start_page + 5 - 1)
        previous == IF current_page > 1
                    THEN <<a("previous",
                             IF current_page = 2 THEN index_html
                                                 ELSE IndexN(current_page - 1),
                             current_page - 1)>>
                    ELSE <<span("disabled", 0)>>
        first == IF start_page > 1
                 THEN <<a("first", index_html, 1)>>
                          \o (IF start_page > 2 THEN <<span("ellipsis", 0)>> ELSE <<>>)
                 ELSE <<>>
        window == [i \in 1..(end_page - start_page + 1) |->
                      LET q == start_page + i - 1
                      IN  IF q = current_page
                          THEN span("current", q)
                          ELSE a("window", IF q > 1 THEN IndexN(q) ELSE index_html, q)]
        last == IF end_page < total_pages
                THEN (IF end_page < total_pages - 1 THEN <<span("ellipsis", 0)>> ELSE <<>>)
                         \o <<a("last", IndexN(total_pages), total_pages)>>
                ELSE <<>>
        next == IF current_page < total_pages
                THEN <<a("next", IndexN(current_page + 1), current_page + 1)>>
                ELSE <<span("disabled", 0)>>
    IN  IF total_pages <= 1
        THEN <<>>
        ELSE previous \o first \o window \o last \o next

\* _generate_index_page calls it with the page clamped into 1..total_pages
\* (page 1 when there is no page).
PaginationInit ==
    /\ \E total_pages \in 0..MaxPages :
           \E current_page \in 1..(IF total_pages = 0 THEN 1 ELSE total_pages) :
               arg = [current_page |-> current_page, total_pages |-> total_pages]
    /\ ret = <<>>
    /\ fpc = "called"
    /\ NormIdle
    /\ ValidIdle
    /\ ProcIdle
    /\ MboxIdle
    /\ GenIdle

\* pagination_html = self._generate_pagination_html(page, total_pages)
GeneratePagination ==
    /\ fpc = "called"
    /\ ret' = _generate_pagination_html(arg.current_page, arg.total_pages)
    /\ fpc' = "returned"
    /\ UNCHANGED <<arg, normVars, validVars, procVars, mboxVars, genVars>>

SpecPagination == PaginationInit /\ [][GeneratePagination]_vars

(***************************************************************************)
(* Properties of the subject normalizers (under SpecNorm).                 *)
(***************************************************************************)

\* C1: normalization is idempotent, normalize(normalize(s)) = normalize(s),
\* for each of the three normalizers and every subject s.
C1_Idempotent == npc = "twice" => n2 = n1

\* The subjects C9 is about: empty, white space only, or made only of
\* strippable elements (leading tags and reply/forward prefixes, then at
\* most one attachment-count suffix, with white space anywhere).
LeadingStrippable == {F_SPACE, F_RE, F_FWD, F_TAG}

OnlyStrippable(ps) ==
    \E k \in 0..Len(ps) :
        /\ \A i \in 1..k : ps[i] \in LeadingStrippable
        /\ k < Len(ps) => ps[k + 1] = F_ATTACH
        /\ \A i \in (k + 2)..Len(ps) : ps[i] = F_SPACE

\* C9: on an empty, white-space-only or strippable-only subject every
\* normalizer returns the sentinel "(No subject)", never the empty text.
C9_SentinelNeverEmpty ==
    (npc # "new" /\ OnlyStrippable(parts)) =>
        /\ n1.utils = DEFAULT_SUBJECT
        /\ n1.base = DEFAULT_SUBJECT
        /\ n1.message = DEFAULT_SUBJECT

\* The subjects C10 is about: tags and reply/forward prefixes in any order
\* and with any spacing, then a text T that starts with neither.  T is a
\* trimmed text: it begins with a word, does not end in white space or in
\* an attachment-count suffix and carries no "(was" annotation.
TextStart(ps) == MinOf({i \in 1..Len(ps) : ps[i] = F_TEXT})

IsTagsPrefixesThenText(ps) ==
    /\ \E i \in 1..Len(ps) : ps[i] = F_TEXT
    /\ \A i \in 1..(TextStart(ps) - 1) : ps[i] \in LeadingStrippable
    /\ \A i \in TextStart(ps)..Len(ps) : ps[i] # F_WAS
    /\ ps[Len(ps)] \notin {F_SPACE, F_ATTACH}

TextOf(ps) == Flatten(SubSeq(ps, TextStart(ps), Len(ps)))

\* C10: for tags and prefixes in any order followed by a text T,
\* Message._normalize_subject returns T.
C10_TagsAndPrefixesStripped ==
    (npc # "new" /\ IsTagsPrefixesThenText(parts)) => n1.message = TextOf(parts)

\* A prefix before a tag before the text, normalized to the text.
C10_Witness ==
    /\ npc = "once"
    /\ IsTagsPrefixesThenText(parts)
    /\ TextStart(parts) = 4
    /\ parts[1] = F_RE
    /\ parts[3] = F_TAG
    /\ n1.message = TextOf(parts)
    /\ n1.message # Subject

\* The subjects C11 is about: some text, then "(was X)" closing the
\* subject, X holding a word and no parenthesis.
WasAt(ps) == MinOf({i \in 1..Len(ps) : ps[i] = F_WAS})

IsWasAnnotated(ps) ==
    /\ \E i \in 1..Len(ps) : ps[i] = F_WAS
    /\ ps[Len(ps)] = F_CLOSE
    /\ \A i \in 1..Len(ps) : i # WasAt(ps) => ps[i] # F_WAS
    /\ \A i \in 1..(Len(ps) - 1) : ps[i] # F_CLOSE
    /\ \E i \in (WasAt(ps) + 1)..(Len(ps) - 1) : ps[i] = F_TEXT

WasInner(ps) == Flatten(SubSeq(ps, WasAt(ps) + 1, Len(ps) - 1))

\* C11: a subject that carries "(was X)" normalizes to the normalization of
\* X, with the normalizer of the JSON variant (normalize_subject) and with
\* that of the mailbox variant (BaseMessage._normalize_subject).
C11_WasUnwrapped ==
    (npc # "new" /\ IsWasAnnotated(parts)) =>
        /\ n1.utils = normalize_subject(WasInner(parts))
        /\ n1.base = BaseMessage_normalize_subject(WasInner(parts))

\* The reply/forward prefixes among the fragments.
PrefixFragments == {F_RE, F_FWD, F_FW, F_RE2}

\* C12: each listed reply/forward prefix, numbered ones included, is
\* stripped from the head of the subject by the normalizer of the JSON
\* variant and by that of the mailbox variant.
C12_ListedPrefixesStripped ==
    (/\ npc # "new"
     /\ Len(parts) = 3
     /\ parts[1] \in PrefixFragments
     /\ parts[2] = F_SPACE
     /\ parts[3] = F_TEXT)
    => /\ n1.utils = F_TEXT
       /\ n1.base = F_TEXT

\* C13: white space around a subject does not change what normalize_subject
\* returns: normalize(w1 + s + w2) = normalize(s).
C13_PaddingIgnored ==
    npc # "new" => n1.utils = normalize_subject(Strip(Subject))

\* Whether the text sub occurs in the text s.
Contains(s, sub) ==
    \E i \in 1..(Len(s) - Len(sub) + 1) : SubSeq(s, i, i + Len(sub) - 1) = sub

\* The subjects with one attachment marker, its place, and whether only
\* white space follows it.
HasOneMarker(ps) == Cardinality({i \in 1..Len(ps) : ps[i] = F_ATTACH}) = 1

MarkerAt(ps) == MinOf({i \in 1..Len(ps) : ps[i] = F_ATTACH})

MarkerAtEnd(ps) == \A i \in (MarkerAt(ps) + 1)..Len(ps) : ps[i] = F_SPACE

IsLeadingRun(ps) ==
    /\ \A i \in 1..Len(ps) : ps[i] \in LeadingStrippable
    /\ ps # <<>> => ps[1] # F_SPACE

IsDecoded(s) == s # <<>> /\ decode_mime_header(s) = s

\* C15: a mailbox message and a JSON message built with the same decoded
\* subject have the same normalized subject.
C15_SameNormalizedSubject ==
    (npc # "new" /\ IsDecoded(Subject)) =>
        /\ MboxMessage_subject(Subject) = Subject
        /\ MboxMessage_normalized_subject(Subject) = n1.base
        /\ MessageOf(Record(1, Subject, CUTOFF_1998, 0), 1).subject = Subject
        /\ MessageOf(Record(1, Subject, CUTOFF_1998, 0), 1).normalized_subject = n1.utils
        /\ n1.base = n1.utils

(***************************************************************************)
(* Properties of the validity filter (under SpecValid).                    *)
(***************************************************************************)

\* The local wall-clock reading of a date is earlier than 1998-01-01 00:00.
LocalBeforeCutoff(d) == d.inst + d.off < CUTOFF_1998

\* C7: the filter accepts exactly the messages that have a date, have a
\* non-empty content and whose date does not precede the cutoff; it gives a
\* boolean (it does not raise) also when date or content is None.
C7_ValidityFilterExact ==
    vpc = "done" =>
        /\ verdict \in BOOLEAN
        /\ verdict = (/\ ~vmsg.date.none
                      /\ vmsg.html_content # NoneText
                      /\ vmsg.html_content # <<>>
                      /\ ~LocalBeforeCutoff(vmsg.date))

\* A message with content and a date before the cutoff, rejected.
C7_Witness ==
    /\ vpc = "done"
    /\ ~vmsg.date.none
    /\ LocalBeforeCutoff(vmsg.date)
    /\ vmsg.html_content = <<"p">>
    /\ verdict = FALSE

\* C8: the cutoff is taken in the message's own UTC offset: a dated message
\* (with content) is rejected iff its instant plus its offset is earlier
\* than 1998-01-01 00:00, for every offset the same instant may carry.
C8_CutoffInOwnOffset ==
    (vpc = "done" /\ ~vmsg.date.none /\ Truthy(vmsg.html_content)) =>
        /\ (verdict = FALSE) <=> (vmsg.date.inst + vmsg.date.off < CUTOFF_1998)
        /\ \A o \in Offsets :
               _is_valid_message([vmsg EXCEPT !.date.off = o])
                   = ~(vmsg.date.inst + o < CUTOFF_1998)

\* An instant that is not before 1998-01-01T00:00Z, rejected in an offset
\* west of UTC and accepted in UTC.
C8_Witness ==
    /\ vpc = "done"
    /\ ~vmsg.date.none
    /\ Truthy(vmsg.html_content)
    /\ vmsg.date.inst >= CUTOFF_1998
    /\ vmsg.date.off < 0
    /\ verdict = FALSE
    /\ _is_valid_message([vmsg EXCEPT !.date.off = 0])

(***************************************************************************)
(* Properties of the directory processors (under Spec).                    *)
(***************************************************************************)

\* The positions of the records read that gave a message: msgId is a
\* number other than 0 and the constructor did not raise.
Constructed ==
    {i \in 1..Len(log) :
        /\ IntOf(log[i].msgId).exc = "none"
        /\ IntOf(log[i].msgId).v # 0
        /\ JSONMessage(IntOf(log[i].msgId).v, log[i], i).exc = "none"}

\* The messages of the run that pass the validity filter.
ValidMessages ==
    {m \in {MessageOf(log[i], i) : i \in Constructed} : _is_valid_message(m)}

Range(s) == {s[i] : i \in 1..Len(s)}

\* The messages found in the threads of the map.
Threaded == UNION {Range(threads[i].val) : i \in 1..Len(threads)}

\* No key twice in the map, no message twice in a thread.
WellFormedMap ==
    /\ \A i, j \in 1..Len(threads) : threads[i].key = threads[j].key => i = j
    /\ \A i \in 1..Len(threads) :
           Cardinality(Range(threads[i].val)) = Len(threads[i].val)

\* C2: the map process_json_directory returns has one bucket per distinct
\* normalized subject of the valid messages, and the bucket of key k holds
\* exactly the valid messages whose normalized subject is k; a rejected
\* message is in no bucket.
C2_BucketsByNormalizedSubject ==
    (proc = "json" /\ ppc = "returned") =>
        /\ WellFormedMap
        /\ DictKeys(threads) = {m.normalized_subject : m \in ValidMessages}
        /\ \A i \in 1..Len(threads) :
               Range(threads[i].val) =
                   {m \in ValidMessages : m.normalized_subject = threads[i].key}

\* Two buckets, one of them holding two messages whose subjects differ.
C2_Witness ==
    /\ proc = "json"
    /\ ppc = "returned"
    /\ Len(threads) = 2
    /\ \E i \in 1..Len(threads) :
           /\ Len(threads[i].val) = 2
           /\ threads[i].val[1].subject # threads[i].val[2].subject

\* C3: in the map either processor returns, every thread is in ascending
\* order of date.
C3_ThreadsSortedByDate ==
    ppc = "returned" =>
        \A t \in 1..Len(threads) :
            \A i, j \in 1..Len(threads[t].val) :
                i < j => threads[t].val[i].date.inst <= threads[t].val[j].date.inst

\* A thread whose later message was read first.
C3_Witness ==
    /\ ppc = "returned"
    /\ \E t \in 1..Len(threads) :
           /\ Len(threads[t].val) >= 2
           /\ threads[t].val[1].seq > threads[t].val[2].seq
           /\ threads[t].val[1].date.inst < threads[t].val[2].date.inst

\* C4: process_email_json_directory loses no message: every valid message
\* is in exactly one thread of the returned map and no thread is empty.
C4_NoMessageLost ==
    (proc = "email" /\ ppc = "returned") =>
        /\ WellFormedMap
        /\ Threaded = ValidMessages
        /\ \A m \in ValidMessages :
               Cardinality({i \in 1..Len(threads) : m \in Range(threads[i].val)}) = 1
        /\ \A i \in 1..Len(threads) : threads[i].val # <<>>

\* The topics of the run (the messages that passed the filter, by topic
\* id): for each its messages, its first message (the earliest, the one
\* read first among equals) and the position at which it was first met.
TopicTable ==
    LET valid == ValidMessages
    IN  [t \in {EmailThreadKey(m) : m \in valid} |->
            LET msgs == {m \in valid : EmailThreadKey(m) = t}
            IN  [msgs |-> msgs,
                 first |-> CHOOSE m \in msgs :
                               \A x \in msgs :
                                   \/ m.date.inst < x.date.inst
                                   \/ (m.date.inst = x.date.inst /\ m.seq <= x.seq),
                 met |-> MinOf({m.seq : m \in msgs})]]

\* The thread under key k holds the messages msgs.
Holds(k, msgs) ==
    /\ k \in DictKeys(threads)
    /\ Range(DictGet(threads, k)) = msgs

SubjectLess(m) == log[m.seq].subject \in {AbsentText, <<>>}

\* C6: process_json_directory never puts two distinct subject-less
\* messages into the same bucket.
C6_SubjectLessNeverMerge ==
    (proc = "json" /\ ppc = "returned") =>
        \A t \in 1..Len(threads) :
            \A i, j \in 1..Len(threads[t].val) :
                (SubjectLess(threads[t].val[i]) /\ SubjectLess(threads[t].val[j]))
                => i = j

\* C16: a record that fails to convert never aborts the run: no run of
\* either processor is left by the exception of a record.
C16_RecordFailureNeverAborts == ppc # "raised"

\* C17: the run ends in a fatal outcome when the directory does not exist
\* (found before any record is read) and when no valid message comes out
\* of the input: a processor returns normally only with a valid message.
C17_ExitContract ==
    /\ ppc = "not_found" => log = <<>>
    /\ ppc = "returned" => ValidMessages # {}

\* C18: no two messages of the map a JSON processor returns share an id,
\* and every id is positive.
C18_IdsUniqueAndPositive ==
    ppc = "returned" =>
        \A m1, m2 \in Threaded :
            /\ m1.id > 0
            /\ m1.id = m2.id => m1 = m2

\* C19: the id counter advances for every record of the source: the k-th
\* record is the only one that can carry id k.
C19_IdFollowsSourcePosition ==
    \A i \in 1..Len(messages) : messages[i].id = messages[i].record

\* The number of the thread that holds the message read as number s.
OwningThread(s) ==
    CHOOSE t \in 1..Len(threads) : \E k \in 1..Len(threads[t].val) : threads[t].val[k].seq = s

\* C20: during generate_site the url of a message is written once, by the
\* thread-page step of its thread and with that thread's file name, all
\* urls are written before the index and search steps run, and every url
\* read is the written one, never the per-message default.
C20_UrlWrittenOnceBeforeRead ==
    gpc # "idle" =>
        /\ \A s \in DOMAIN writes :
               /\ writes[s] <= 1
               /\ writes[s] = 0 => url[s] = DefaultUrl(s)
               /\ writes[s] = 1 =>
                      /\ OwningThread(s) < gi \/ gpc # "threads"
                      /\ url[s] = ThreadUrl(ThreadFilename(OwningThread(s),
                                                          threads[OwningThread(s)].val))
               /\ gpc \in {"index", "search", "raised"} => writes[s] = 1
        /\ \A i \in 1..Len(reads) :
               /\ writes[reads[i].msg] = 1
               /\ reads[i].url = url[reads[i].msg]
               /\ reads[i].url # DefaultUrl(reads[i].msg)

\* Two threads, each url written once, the index and the search step
\* past.
C20_Witness ==
    /\ gpc = "raised"
    /\ Len(threads) = 2
    /\ Len(log) = 3
    /\ \A s \in DOMAIN writes : writes[s] = 1
    /\ \E i, j \in 1..Len(reads) :
           /\ reads[i].by = "index"
           /\ reads[j].by = "search"
           /\ reads[j].msg # reads[i].msg
           /\ reads[j].url = reads[i].url

\* C21: once the index pages are written, every thread of the map has been
\* rendered exactly once, no page holds more than threads_per_page previews,
\* the pages come in page order, and the previews come in descending order
\* of the instant of their thread's last message.
IndexDone == gpc \in {"search", "raised"}

LastInstOfKey(k) == LastInst(threads[DictIndex(threads, k)])

C21_IndexOrder ==
    IndexDone =>
        /\ \A i \in 1..Len(threads) :
               Cardinality({j \in 1..Len(rendered) : rendered[j].key = threads[i].key}) = 1
        /\ \A p \in 1..TotalPages(Len(threads)) :
               Cardinality({j \in 1..Len(rendered) : rendered[j].page = p}) <= threads_per_page
        /\ \A j, k \in 1..Len(rendered) :
               j < k => /\ rendered[j].page <= rendered[k].page
                        /\ LastInstOfKey(rendered[j].key) >= LastInstOfKey(rendered[k].key)

\* C22: a JSON message built from a record whose postDate is missing or 0
\* has no date.
C22_ZeroPostDateIsNoDate ==
    \A i \in Constructed :
        GetPostDate(log[i]) = RawInt(0) => MessageOf(log[i], i).date = NoDate

\* C23: the content _extract_content returns holds no script, iframe, object
\* or embed element, whether it was made from a text/html part or from a
\* text/plain part.
C23_ContentSanitized ==
    (fpc = "returned" /\ ret # NoneText) =>
        \A i \in 1..Len(ret) : ret[i] \notin {"script", "iframe", "object", "embed"}

\* C24: decode_mime_header returns for every value; None and the empty text
\* give the empty text, a number gives its decimal text, and an encoded word
\* of an unknown charset gives what the same bytes give as UTF-8 with
\* replacement.
C24_HeaderDecoderTotal ==
    fpc # "idle" =>
        /\ fpc \in {"called", "returned"}
        /\ fpc = "returned" =>
               /\ arg.k = "none" => ret = <<>>
               /\ (arg.k = "str" /\ arg.text = <<>>) => ret = <<>>
               /\ arg.k = "int" => ret = IntToText(arg.v)
               /\ (arg.k = "encoded" /\ arg.charset = "x-unknown") =>
                      ret = Strip(LStripUnderscore(Strip(DecodeReplace(arg.bytes))))

\* C25: the strip loop ends.  A pass that follows a request for another
\* pass leaves the subject strictly shorter than it was when the requesting
\* pass began, and the loop makes at most as many passes as the subject has
\* characters.
C25_LoopShrinksAndEnds ==
    fpc \in {"called", "returned"} =>
        /\ ret.passes <= Len(arg.subject)
        /\ ret.passes >= 2 => Len(ret.subject) < Len(ret.before)
        /\ Len(ret.subject) <= Len(ret.start)

\* The loop has ended after three passes or more.
C25_Witness ==
    /\ fpc = "returned"
    /\ ret.passes >= 3
    /\ ret.subject # <<>>

\* C26: what normalize_subject and BaseMessage._normalize_subject return is
\* the sentinel, or a text that is not empty, neither begins nor ends with
\* white space, and begins with neither a bracket tag nor a prefix of the
\* function's own prefix list, in any letter case.
IsNormalKey(r, P) ==
    \/ r = DEFAULT_SUBJECT
    \/ /\ r # <<>>
       /\ r = Strip(r)
       /\ ~BracketMatches(r)
       /\ \A i \in 1..Len(P) : ~StartsWith(Lower(r), Lower(P[i]))

C26_NormalKeyPostcondition ==
    npc # "new" =>
        /\ IsNormalKey(n1.utils, PREFIXES_TO_STRIP_UTILS)
        /\ IsNormalKey(n1.base, PREFIXES_TO_STRIP)

\* C27: while the site is generated, every message of the map still has the
\* id, subject, normalized subject, sender, date and content it was
\* constructed with, its normalized subject is the one computed from its
\* subject, and no message was added to or dropped from the map; only url
\* takes a new value.
MapMessages ==
    {ik \in (1..Len(threads)) \X (1..Len(log)) : ik[2] <= Len(threads[ik[1]].val)}

C27_OnlyUrlChanges ==
    gpc # "idle" =>
        /\ \A ik \in MapMessages :
               LET m == threads[ik[1]].val[ik[2]]
               IN  /\ m.seq \in 1..Len(log)
                   /\ m = MessageOf(log[m.seq], m.seq)
                   /\ m.normalized_subject = normalize_subject(m.subject)
        /\ \A s \in 1..Len(log) :
               Cardinality({ik \in MapMessages :
                               threads[ik[1]].val[ik[2]].seq = s}) = 1

\* The site of three messages is generated: every url was replaced, and a
\* message whose normalized subject differs from its subject kept both.
C27_Witness ==
    /\ gpc = "raised"
    /\ Len(log) = 3
    /\ \A s \in 1..Len(log) : url[s] # DefaultUrl(s)
    /\ \E ik \in MapMessages :
           LET m == threads[ik[1]].val[ik[2]]
           IN  /\ m.subject = T_RE_HI
               /\ m.normalized_subject = T_HI

\* C28: when a processor returns, the tracker's valid_messages is the number
\* of messages that passed the validity filter and its processed_messages
\* the number of records examined.
C28_TalliesExact ==
    ppc = "returned" =>
        /\ progress.valid_messages = Cardinality(ValidMessages)
        /\ progress.processed_messages = Len(log)

\* C29: for two pages or more, every link of the pagination controls leads
\* to the file of a page of 1..total_pages other than the current page; the
\* numbered window shows min(5, total_pages) consecutive pages, the current
\* page among them, and the current page is shown once, not as a link.
Windowed == {i \in 1..Len(ret) : ret[i].by \in {"window", "current"}}

C29_PaginationConsistent ==
    (fpc = "returned" /\ arg.total_pages >= 2) =>
        /\ \A i \in 1..Len(ret) :
               ret[i].tag = "a" =>
                   /\ ret[i].page \in (1..arg.total_pages) \ {arg.current_page}
                   /\ ret[i].href = OutputFile(ret[i].page)
        /\ Cardinality(Windowed) = Min2(5, arg.total_pages)
        /\ \A i, j \in Windowed : j = i + 1 => ret[j].page = ret[i].page + 1
        /\ \A i, j \in Windowed : \A k \in i..j : k \in Windowed
        /\ Cardinality({i \in 1..Len(ret) : ret[i].by = "current"}) = 1
        /\ \A i \in 1..Len(ret) :
               ret[i].by = "current" =>
                   /\ ret[i].page = arg.current_page
                   /\ ret[i].tag = "span"
                   /\ i \in Windowed

\* The last of nine pages: the window was moved back to pages 5 to 9,
\* page 1 and an ellipsis stand before it.
C29_Witness ==
    /\ fpc = "returned"
    /\ arg = [current_page |-> 9, total_pages |-> 9]
    /\ \E i \in 1..Len(ret) : ret[i].by = "first" /\ ret[i + 1].by = "ellipsis"
    /\ {ret[i].page : i \in Windowed} = 5..9

\* C30: generate_site on a map of valid messages is never left by an
\* exception.
C30_GenerateSiteReturns == gpc # "raised"

============================================================================
